---- MODULE Spec2Model ----
(***************************************************************************)
(* repomap: the symbol normalizer (parser.rs), the per-file render and the *)
(* RepoStats aggregate and document splicer (formatter.rs), and the scan   *)
(* loop of the binary (main.rs).                                           *)
(*                                                                         *)
(* A Rust String is modelled as a sequence of one-character strings.  A    *)
(* byte offset returned by str::find is modelled as the number of          *)
(* characters before the hit: every slice the code takes is cut at such an *)
(* offset, so the two agree.  Only str::len is sensitive to the width of a *)
(* character; Utf8Len gives it.                                            *)
(***************************************************************************)
EXTENDS Integers, Sequences, FiniteSets, TLC

VARIABLES
    \* the document splicer (formatter.rs, update_or_append_repomap)
    existing_content,   \* the target document as it is on disk
    new_repomap,        \* the block of the last splice
    orig_content,       \* the document before the first splice
    prev_content,       \* the document before the last splice
    prev_repomap,       \* the block of the splice before the last one
    spliced,            \* the blocks of the splices done, in order
    runs,               \* number of splices done
    \* the symbol normalizer (parser.rs, extract_symbols)
    oracle,             \* what the tree-sitter parser and query compiler do
    matches,            \* the raw matches the query cursor yields, in order
    next_match,         \* index of the match the while loop takes next
    symbols,            \* the Vec<Symbol> built so far
    sym_pc,             \* "start", "loop", "returned" or "panicked"
    \* the import normalizer (parser.rs, extract_imports)
    captures,           \* the captures of the import query's matches, in order
    next_capture,       \* index of the capture the loops take next
    imports,            \* the Vec<String> built so far
    imp_pc,             \* "start", "loop" or "returned"
    \* the aggregate: RepoStats (formatter.rs) and the locals of main (main.rs)
    map_content,
    table_rows,
    file_count,
    calls,              \* the arguments of the add_file calls made, in order
    est_text,           \* the argument of the last estimate_tokens call
    est,                \* what it returned
    \* the scan loop of main (main.rs)
    language,           \* args.language
    entries,            \* what walker.build() yields, in order
    next_entry,         \* index of the entry the for loop takes next
    registered,         \* indices of the entries whose file was registered
    scan_pc             \* "scanning", "done", "failed" or "panicked"

spliceVars == <<existing_content, new_repomap, orig_content, prev_content,
                prev_repomap, spliced, runs>>
symVars == <<matches, next_match, symbols, sym_pc>>
impVars == <<captures, next_capture, imports, imp_pc>>

statsVars == <<map_content, table_rows, file_count, calls, est_text, est>>
scanVars == <<language, entries, next_entry, registered, scan_pc>>

vars == <<spliceVars, oracle, symVars, impVars, statsVars, scanVars>>

\* Option<T>
None == [some |-> FALSE]
Some(v) == [some |-> TRUE, v |-> v]
IsSome(o) == o.some

-----------------------------------------------------------------------------
(* Bounds *)

MaxDocPieces == 3
MaxRuns == 3
MaxMatches == 3
MaxRow == 1
MaxCaptures == 3
MaxCalls == 3
MaxTextLen == 7
MaxEntries == 3

-----------------------------------------------------------------------------
(* Strings *)

\* char::is_whitespace, restricted to the characters the model draws
IsWhitespace(c) == c \in {" ", "\n", "\t", "\r"}

RECURSIVE TrimEnd(_)
\* str::trim_end
TrimEnd(s) ==
    IF s = <<>> \/ ~IsWhitespace(s[Len(s)]) THEN s
    ELSE TrimEnd(SubSeq(s, 1, Len(s) - 1))

RECURSIVE TrimStart(_)
\* str::trim_start
TrimStart(s) ==
    IF s = <<>> \/ ~IsWhitespace(s[1]) THEN s
    ELSE TrimStart(Tail(s))

\* str::trim
Trim(s) == TrimStart(TrimEnd(s))

SetMin(S) == CHOOSE x \in S : \A y \in S : x <= y
SetMax(S) == CHOOSE x \in S : \A y \in S : x >= y

\* the offsets at which needle occurs in hay
Occurrences(hay, needle) ==
    { i \in 0..(Len(hay) - Len(needle)) :
        /\ hay[i + 1] = needle[1]
        /\ SubSeq(hay, i + 1, i + Len(needle)) = needle }

\* str::rfind: offset of the last occurrence
RFind(hay, needle) ==
    IF Occurrences(hay, needle) = {} THEN None
    ELSE Some(SetMax(Occurrences(hay, needle)))

\* str::find with a non-empty pattern: offset of the first occurrence
Find(hay, needle) ==
    IF Occurrences(hay, needle) = {} THEN None
    ELSE Some(SetMin(Occurrences(hay, needle)))

Digits == <<"0", "1", "2", "3", "4", "5", "6", "7", "8", "9">>

RECURSIVE ToDec(_)
\* Display of an unsigned integer ("{}")
ToDec(n) ==
    IF n < 10 THEN <<Digits[n + 1]>>
    ELSE ToDec(n \div 10) \o <<Digits[(n % 10) + 1]>>

RECURSIVE Concat(_)
\* concatenation of a sequence of strings
Concat(ss) == IF ss = <<>> THEN <<>> ELSE Head(ss) \o Concat(Tail(ss))

-----------------------------------------------------------------------------
(* formatter.rs: the document splicer *)

REPOMAP_START ==
    <<"<","!","-","-"," ","R","E","P","O","M","A","P"," ",
      "S","T","A","R","T"," ","-","-",">">>

REPOMAP_END ==
    <<"<","!","-","-"," ","R","E","P","O","M","A","P"," ",
      "E","N","D"," ","-","-",">">>

\* "~{:.1}k tokens" for an estimate >= 1000, "~{} tokens" below.  {:.1} rounds
\* token_estimate / 1000.0 to the nearest tenth; the estimates the model draws
\* are never half-way between two tenths.
TokenDisplay(token_estimate) ==
    IF token_estimate >= 1000
    THEN LET tenths == (token_estimate + 50) \div 100
         IN  <<"~">> \o ToDec(tenths \div 10) \o <<".">> \o ToDec(tenths % 10)
                \o <<"k"," ","t","o","k","e","n","s">>
    ELSE <<"~">> \o ToDec(token_estimate) \o <<" ","t","o","k","e","n","s">>

wrap_for_claude_md(content, files, token_estimate) ==
    REPOMAP_START
    \o <<"\n","#","#"," ","R","e","p","o","s","i","t","o","r","y"," ",
         "S","t","r","u","c","t","u","r","e","\n","\n">>
    \o <<"<","d","e","t","a","i","l","s",">","\n">>
    \o <<"<","s","u","m","m","a","r","y",">","R","e","p","o","s","i","t","o","r","y",
         " ","m","a","p"," ","(">>
    \o ToDec(files) \o <<" ","f","i","l","e","s",","," ">>
    \o TokenDisplay(token_estimate)
    \o <<")","<","/","s","u","m","m","a","r","y",">","\n","\n">>
    \o content
    \o <<"\n","<","/","d","e","t","a","i","l","s",">","\n">>
    \o REPOMAP_END \o <<"\n">>

\* update_or_append_repomap with the end marker searched from the back
update_or_append_repomap_rfind(existing, block) ==
    LET start == Find(existing, REPOMAP_START)
        end   == RFind(existing, REPOMAP_END)
    IN  IF IsSome(start) /\ IsSome(end)
        THEN LET before == SubSeq(existing, 1, start.v)
                 after  == SubSeq(existing, end.v + Len(REPOMAP_END) + 1, Len(existing))
             IN  TrimEnd(before) \o block \o after
        ELSE LET trimmed == TrimEnd(existing)
             IN  IF trimmed = <<>> THEN block
                 ELSE trimmed \o <<"\n", "\n">> \o block

update_or_append_repomap(existing, block) ==
    LET start == Find(existing, REPOMAP_START)
        end   == Find(existing, REPOMAP_END)
    IN  IF IsSome(start) /\ IsSome(end)
        THEN LET before == SubSeq(existing, 1, start.v)
                 after  == SubSeq(existing, end.v + Len(REPOMAP_END) + 1, Len(existing))
             IN  TrimEnd(before) \o block \o after
        ELSE LET trimmed == TrimEnd(existing)
             IN  IF trimmed = <<>> THEN block
                 ELSE trimmed \o <<"\n", "\n">> \o block

\* the pieces the model builds documents from
DocPieces == { REPOMAP_START, REPOMAP_END, <<"\n">>, <<"a">> }

RECURSIVE DocsOf(_)
DocsOf(n) ==
    IF n = 0 THEN { <<>> }
    ELSE LET shorter == DocsOf(n - 1)
         IN  shorter \cup { d \o p : d \in shorter, p \in DocPieces }

Docs == DocsOf(MaxDocPieces)

\* blocks as the program produces them, from content without a marker
WrappedBlocks ==
    { wrap_for_claude_md(<<"m">>, 1, 12),
      wrap_for_claude_md(<<"m", "\n", "n">>, 12, 1234) }

\* the blocks the model splices: the program's, and one bare text
Blocks == WrappedBlocks \cup { <<"b">> }

SpliceIdle ==
    /\ existing_content = <<>>
    /\ orig_content = <<>>
    /\ prev_content = <<>>
    /\ new_repomap = <<>>
    /\ prev_repomap = <<>>
    /\ spliced = <<>>
    /\ runs = 0

SymIdle ==
    /\ matches = <<>>
    /\ next_match = 1
    /\ symbols = <<>>
    /\ sym_pc = "returned"

ImpIdle ==
    /\ captures = <<>>
    /\ next_capture = 1
    /\ imports = <<>>
    /\ imp_pc = "returned"

StatsIdle ==
    /\ map_content = <<>>
    /\ table_rows = <<>>
    /\ file_count = 0
    /\ calls = <<>>
    /\ est_text = <<>>
    /\ est = 0

ScanIdle ==
    /\ language = None
    /\ entries = <<>>
    /\ next_entry = 1
    /\ registered = <<>>
    /\ scan_pc = "done"

SpliceInit ==
    /\ oracle = "ok"
    /\ SymIdle
    /\ ImpIdle
    /\ StatsIdle
    /\ ScanIdle
    /\ existing_content \in Docs
    /\ orig_content = existing_content
    /\ prev_content = <<>>
    /\ new_repomap = <<>>
    /\ prev_repomap = <<>>
    /\ spliced = <<>>
    /\ runs = 0

\* one run of the tool against the document: read it, splice, write it back
Splice ==
    /\ runs < MaxRuns
    /\ \E block \in Blocks :
        /\ existing_content' = update_or_append_repomap(existing_content, block)
        /\ new_repomap' = block
        /\ spliced' = Append(spliced, block)
    /\ prev_content' = existing_content
    /\ prev_repomap' = new_repomap
    /\ runs' = runs + 1
    /\ UNCHANGED <<orig_content, oracle, symVars, impVars, statsVars, scanVars>>

SpliceNext == Splice

SpecSplice == SpliceInit /\ [][SpliceNext]_vars

-----------------------------------------------------------------------------
(* parser.rs: extract_symbols *)

function_item == <<"f","u","n","c","t","i","o","n","_","i","t","e","m">>
atx_heading == <<"a","t","x","_","h","e","a","d","i","n","g">>
identifier == <<"i","d","e","n","t","i","f","i","e","r">>
inline == <<"i","n","l","i","n","e">>

\* one capture of a match: the capture's name in the query, the node's kind
\* and rows (0-indexed), and source.get(start_byte..end_byte)
Capture(capture_name, kind, text, start_row, end_row) ==
    [capture_name |-> capture_name, kind |-> kind, text |-> text,
     start_row |-> start_row, end_row |-> end_row]

RECURSIVE TrimStartMatches(_, _)
\* str::trim_start_matches(char)
TrimStartMatches(s, ch) ==
    IF s = <<>> \/ s[1] # ch THEN s ELSE TrimStartMatches(Tail(s), ch)

\* raw_text.chars().take_while(|&c| c == '#').count()
HeadingLevel(raw_text) == Len(raw_text) - Len(TrimStartMatches(raw_text, "#"))

\* the locals of one iteration of the while loop, before the captures are read
MatchLocals ==
    [name |-> <<>>, parent |-> None, kind |-> <<>>, start_line |-> 0, end_line |-> 0]

\* the "item" arm with end_line taken from the end row without the + 1
ItemArm_endrow(loc, capture) ==
    [loc EXCEPT !.kind = capture.kind,
                !.start_line = capture.start_row + 1,
                !.end_line = capture.end_row]

\* the "item" arm with a heading's text taken for the name only when no name
\* was read before
ItemArm_keepname(loc, capture) ==
    LET spanned == [loc EXCEPT !.kind = capture.kind,
                               !.start_line = capture.start_row + 1,
                               !.end_line = capture.end_row + 1]
    IN  IF capture.kind = atx_heading /\ IsSome(capture.text)
        THEN [spanned EXCEPT
                !.kind = <<"h">> \o ToDec(HeadingLevel(capture.text.v)),
                !.name = IF loc.name = <<>>
                         THEN Trim(TrimStartMatches(capture.text.v, "#"))
                         ELSE loc.name]
        ELSE spanned

\* the "item" arm of the match on capture_name
ItemArm(loc, capture) ==
    LET spanned == [loc EXCEPT !.kind = capture.kind,
                               !.start_line = capture.start_row + 1,
                               !.end_line = capture.end_row + 1]
    IN  IF capture.kind = atx_heading /\ IsSome(capture.text)
        THEN [spanned EXCEPT
                !.kind = <<"h">> \o ToDec(HeadingLevel(capture.text.v)),
                !.name = Trim(TrimStartMatches(capture.text.v, "#"))]
        ELSE spanned

\* the body of `for capture in m.captures`
ReadCapture(loc, capture) ==
    CASE capture.capture_name = "name" ->
            IF IsSome(capture.text)
            THEN [loc EXCEPT !.name = Trim(capture.text.v)] ELSE loc
      [] capture.capture_name = "parent" ->
            IF IsSome(capture.text)
            THEN [loc EXCEPT !.parent = Some(capture.text.v)] ELSE loc
      [] capture.capture_name = "item" -> ItemArm(loc, capture)
      [] OTHER -> loc

RECURSIVE ReadCaptures(_, _)
ReadCaptures(loc, caps) ==
    IF caps = <<>> THEN loc
    ELSE ReadCaptures(ReadCapture(loc, Head(caps)), Tail(caps))

\* the is_duplicate test
IsDuplicate(syms, loc) ==
    \E i \in 1..Len(syms) :
        /\ syms[i].line = loc.start_line
        /\ IsSome(syms[i].parent)
        /\ ~IsSome(loc.parent)

\* one iteration of `while let Some(m) = matches.next()`
PushMatch(syms, m) ==
    LET loc == ReadCaptures(MatchLocals, m)
    IN  IF loc.name # <<>> /\ loc.start_line > 0 /\ ~IsDuplicate(syms, loc)
        THEN Append(syms, [name |-> loc.name, kind |-> loc.kind,
                           parent |-> loc.parent, line |-> loc.start_line,
                           end_line |-> loc.end_line])
        ELSE syms

\* node spans: a node never ends before it starts
RowSpans == { <<s, e>> \in (0..MaxRow) \X (0..MaxRow) : s <= e }

NameCapture(text) == Capture("name", identifier, Some(text), 0, 0)
ParentCapture(text) == Capture("parent", identifier, Some(text), 0, 0)

\* the matches a code query may yield: a bare function, the same function as
\* a member of P, and matches that lack an item or a non-blank name
CodeMatches ==
    { << Capture("item", function_item, Some(<<"f","n">>), sp[1], sp[2]),
         NameCapture(<<"f">>) >> : sp \in RowSpans }
    \cup
    { << ParentCapture(<<"P">>),
         Capture("item", function_item, Some(<<"f","n">>), sp[1], sp[2]),
         NameCapture(<<"f">>) >> : sp \in RowSpans }
    \cup
    { << NameCapture(<<"f">>) >>,
      << Capture("item", function_item, Some(<<"f","n">>), 0, 0), NameCapture(<<" ">>) >> }

\* the matches a Markdown query may yield: a heading as "(atx_heading) @item"
\* gives it, a match whose spans give no text, a heading of a query that also
\* captures a name on a node around the heading (read before the item) or on
\* the heading's inline content (read after the item), and an empty heading
MarkdownMatches ==
    { << Capture("item", atx_heading, Some(<<"#","#"," ","T","\n">>), sp[1], sp[2]) >> :
         sp \in RowSpans }
    \cup
    { << Capture("doc", identifier, Some(<<"d">>), 0, 0),
         Capture("item", atx_heading, None, 0, 0),
         Capture("name", identifier, None, 0, 0) >>,
      << Capture("name", inline, Some(<<"X">>), 0, 0),
         Capture("item", atx_heading, Some(<<"#"," ","T","\n">>), 0, 0) >>,
      << Capture("item", atx_heading, Some(<<"#","#","#"," ","T"," ","#","\n">>), 0, 0),
         Capture("name", inline, Some(<<" ","N"," ">>), 0, 0) >>,
      << Capture("item", atx_heading, Some(<<"#","\n">>), 0, 0) >> }

RECURSIVE SeqsUpTo(_, _)
\* the sequences over S of length at most n
SeqsUpTo(S, n) ==
    IF n = 0 THEN { <<>> }
    ELSE LET shorter == SeqsUpTo(S, n - 1)
         IN  shorter \cup { Append(q, x) : q \in shorter, x \in S }

SymInit ==
    /\ SpliceIdle
    /\ ImpIdle
    /\ StatsIdle
    /\ ScanIdle
    /\ \/ oracle = "ok" /\ matches \in SeqsUpTo(CodeMatches, MaxMatches)
       \/ oracle = "ok" /\ matches \in SeqsUpTo(MarkdownMatches, MaxMatches)
       \/ oracle \in {"no_tree", "bad_query"} /\ matches = <<>>
    /\ next_match = 1
    /\ symbols = <<>>
    /\ sym_pc = "start"

\* parser.parse(..).expect(..) and Query::new(..).expect(..): a panic when the
\* oracle gives no tree or rejects the query
SymStart ==
    /\ sym_pc = "start"
    /\ sym_pc' = IF oracle = "ok" THEN "loop" ELSE "panicked"
    /\ UNCHANGED <<oracle, matches, next_match, symbols, spliceVars, impVars, statsVars, scanVars>>

SymMatch ==
    /\ sym_pc = "loop"
    /\ next_match <= Len(matches)
    /\ symbols' = PushMatch(symbols, matches[next_match])
    /\ next_match' = next_match + 1
    /\ UNCHANGED <<oracle, matches, sym_pc, spliceVars, impVars, statsVars, scanVars>>

SymReturn ==
    /\ sym_pc = "loop"
    /\ next_match > Len(matches)
    /\ sym_pc' = "returned"
    /\ UNCHANGED <<oracle, matches, next_match, symbols, spliceVars, impVars, statsVars, scanVars>>

SymNext == SymStart \/ SymMatch \/ SymReturn

SpecSymbols == SymInit /\ [][SymNext]_vars

-----------------------------------------------------------------------------
(* parser.rs: extract_imports *)

RECURSIVE TrimEndMatches(_, _)
\* str::trim_end_matches(char)
TrimEndMatches(s, ch) ==
    IF s = <<>> \/ s[Len(s)] # ch THEN s
    ELSE TrimEndMatches(SubSeq(s, 1, Len(s) - 1), ch)

\* str::trim_matches(char): every leading and every trailing ch
TrimMatches(s, ch) == TrimEndMatches(TrimStartMatches(s, ch), ch)

\* text.trim().trim_matches('"').trim_matches('\'')
CleanImport(text) == TrimMatches(TrimMatches(Trim(text), "\""), "'")

Contains(seq, x) == \E i \in 1..Len(seq) : seq[i] = x

\* the body of the capture loop without the imports.contains test
PushImport_nodedup(imps, capture) ==
    IF capture.capture_name = "import" /\ IsSome(capture.text)
    THEN LET cleaned == CleanImport(capture.text.v)
         IN  IF cleaned # <<>> THEN Append(imps, cleaned) ELSE imps
    ELSE imps

\* the body of `for capture in m.captures`
PushImport(imps, capture) ==
    IF capture.capture_name = "import" /\ IsSome(capture.text)
    THEN LET cleaned == CleanImport(capture.text.v)
         IN  IF cleaned # <<>> /\ ~Contains(imps, cleaned)
             THEN Append(imps, cleaned) ELSE imps
    ELSE imps

\* the source text of the captures the model draws
ImportTexts ==
    { <<"a">>, <<"b">>, <<"A">>, <<" ", "a", "\n">>,
      <<"\"", "a", "\"">>, <<"'", "b", "'">>, <<"\"", "\"">>,
      <<"\"", "\"", "a", "\"", "\"">>, <<"\"", "a">>,
      <<"\"", " ", "a", " ", "\"">>, <<"'", "\"", "a", "\"", "'">>,
      <<"\"", "'", "a", "'", "\"">> }

ImportCaptures ==
    { Capture("import", identifier, Some(t), 0, 0) : t \in ImportTexts }
    \cup { Capture("import", identifier, None, 0, 0),
           Capture("name", identifier, Some(<<"a">>), 0, 0) }

ImpInit ==
    /\ SpliceIdle
    /\ SymIdle
    /\ StatsIdle
    /\ ScanIdle
    /\ \/ oracle = "ok" /\ captures \in SeqsUpTo(ImportCaptures, MaxCaptures)
       \/ oracle \in {"no_tree", "bad_query"} /\ captures = <<>>
    /\ next_capture = 1
    /\ imports = <<>>
    /\ imp_pc = "start"

\* parser.parse(..) and Query::new(..): `return vec![]` when either fails
ImpStart ==
    /\ imp_pc = "start"
    /\ imp_pc' = IF oracle = "ok" THEN "loop" ELSE "returned"
    /\ UNCHANGED <<oracle, captures, next_capture, imports, spliceVars, symVars, statsVars, scanVars>>

ImpCapture ==
    /\ imp_pc = "loop"
    /\ next_capture <= Len(captures)
    /\ imports' = PushImport(imports, captures[next_capture])
    /\ next_capture' = next_capture + 1
    /\ UNCHANGED <<oracle, captures, imp_pc, spliceVars, symVars, statsVars, scanVars>>

ImpReturn ==
    /\ imp_pc = "loop"
    /\ next_capture > Len(captures)
    /\ imp_pc' = "returned"
    /\ UNCHANGED <<oracle, captures, next_capture, imports, spliceVars, symVars, statsVars, scanVars>>

ImpNext == ImpStart \/ ImpCapture \/ ImpReturn

SpecImports == ImpInit /\ [][ImpNext]_vars

-----------------------------------------------------------------------------
(* formatter.rs and main.rs: the per-file render *)

\* sym.end_line - sym.line + 1 in usize: None when the subtraction underflows
\* (a panic in a debug build, a wrapped value in a release build)
SymbolSize(sym) ==
    IF sym.end_line < sym.line THEN None
    ELSE Some(sym.end_line - sym.line + 1)

\* "{: <w}": left-aligned, filled with spaces to w characters
PadRight(s, w) ==
    s \o [i \in 1..(IF Len(s) < w THEN w - Len(s) ELSE 0) |-> " "]

IsDigit(c) == \E d \in 1..10 : Digits[d] = c
DigitValue(c) == (CHOOSE d \in 1..10 : Digits[d] = c) - 1

RECURSIVE DecValue(_)
DecValue(ds) ==
    IF ds = <<>> THEN 0
    ELSE DecValue(SubSeq(ds, 1, Len(ds) - 1)) * 10 + DigitValue(ds[Len(ds)])

\* str::parse::<usize>: digits, with an optional leading '+'
ParseUsize(s) ==
    LET ds == IF s # <<>> /\ s[1] = "+" THEN Tail(s) ELSE s
    IN  IF ds # <<>> /\ \A i \in 1..Len(ds) : IsDigit(ds[i])
        THEN Some(DecValue(ds)) ELSE None

\* "  ".repeat(n)
Indent(n) == [i \in 1..(2 * n) |-> " "]

DisplayName(sym) ==
    IF IsSome(sym.parent)
    THEN sym.parent.v \o <<" ", ">", " ">> \o sym.name
    ELSE IF sym.kind # <<>> /\ sym.kind[1] = "h" /\ Len(sym.kind) > 1
         THEN LET parsed == ParseUsize(Tail(sym.kind))
                  level == IF IsSome(parsed) THEN parsed.v ELSE 1
              IN  Indent(IF level > 0 THEN level - 1 ELSE 0) \o sym.name
         ELSE sym.name

\* the text written for the size: the number, or "?" when it underflowed
SizeText(sym) == IF IsSome(SymbolSize(sym)) THEN ToDec(SymbolSize(sym).v) ELSE <<"?">>

\* "L{: <3} | {: <10} | {: <30} | ({} lines)\n"
SymbolLine(sym, kind) ==
    <<"L">> \o PadRight(ToDec(sym.line), 3) \o <<" ", "|", " ">>
    \o PadRight(kind, 10) \o <<" ", "|", " ">>
    \o PadRight(DisplayName(sym), 30) \o <<" ", "|", " ">>
    \o <<"(">> \o SizeText(sym) \o <<" ","l","i","n","e","s",")","\n">>

RECURSIVE Join(_, _)
\* [String]::join
Join(ss, sep) ==
    IF ss = <<>> THEN <<>>
    ELSE IF Len(ss) = 1 THEN ss[1]
    ELSE ss[1] \o sep \o Join(Tail(ss), sep)

\* the grave accent U+0060, which a TLA+ string cannot hold: one element
\* stands for the one character
Backtick == "U+0060"

\* the code fence
Fence == <<Backtick, Backtick, Backtick>>

\* "\n## {}\n"
FileHeading(path) == <<"\n", "#", "#", " ">> \o path \o <<"\n">>

\* the file_output of process_file_with_stats (formatter.rs), given what
\* extract_symbols and extract_imports returned
process_file_with_stats(path, lang_tag, syms, imps) ==
    IF syms # <<>> \/ imps # <<>>
    THEN FileHeading(path)
         \o (IF imps # <<>>
             THEN <<"i","m","p","o","r","t","s",":"," ">> \o Join(imps, <<",", " ">>)
                    \o <<"\n">>
             ELSE <<>>)
         \o (IF syms # <<>>
             THEN Fence \o lang_tag \o <<"\n">>
                    \o Concat([i \in 1..Len(syms) |-> SymbolLine(syms[i], syms[i].kind)])
                    \o Fence \o <<"\n">>
             ELSE <<>>)
    ELSE <<>>

RECURSIVE Replace(_, _)
\* str::replace(pat, "")
Replace(s, pat) ==
    IF Len(s) < Len(pat) THEN s
    ELSE IF SubSeq(s, 1, Len(pat)) = pat
         THEN Replace(SubSeq(s, Len(pat) + 1, Len(s)), pat)
         ELSE <<s[1]>> \o Replace(Tail(s), pat)

\* clean_kind of main.rs
CleanKind(kind) ==
    Replace(Replace(Replace(kind, <<"_","i","t","e","m">>),
                    <<"_","d","e","f","i","n","i","t","i","o","n">>),
            <<"_","d","e","c","l","a","r","a","t","i","o","n">>)

\* the output of process_file (main.rs), given what extract_symbols returned
process_file(path, lang_tag, syms) ==
    IF syms # <<>>
    THEN FileHeading(path)
         \o Fence \o lang_tag \o <<"\n">>
         \o Concat([i \in 1..Len(syms) |-> SymbolLine(syms[i], CleanKind(syms[i].kind))])
         \o Fence \o <<"\n">>
    ELSE <<>>

-----------------------------------------------------------------------------
(* formatter.rs: RepoStats *)

\* "| `{}` | {} | {} |\n"
TableRow(path, sym_count, line_count) ==
    <<"|", " ", Backtick>> \o path \o <<Backtick, " ", "|", " ">>
    \o ToDec(sym_count) \o <<" ", "|", " ">>
    \o ToDec(line_count) \o <<" ", "|", "\n">>

\* RepoStats::new
RepoStatsNew == [map_content |-> <<>>, table_rows |-> <<>>, file_count |-> 0]

\* add_file that puts the newest fragment first
add_file_prepend(stats, path, file_map, sym_count, line_count) ==
    [map_content |-> file_map \o stats.map_content,
     table_rows  |-> stats.table_rows \o TableRow(path, sym_count, line_count),
     file_count  |-> stats.file_count + 1]

\* RepoStats::add_file
add_file(stats, path, file_map, sym_count, line_count) ==
    [map_content |-> stats.map_content \o file_map,
     table_rows  |-> stats.table_rows \o TableRow(path, sym_count, line_count),
     file_count  |-> stats.file_count + 1]

\* a two-byte character (U+00E9), which stands for every non-ASCII character
EAcute == "U+00E9"

\* the UTF-8 width of a character the model draws
Utf8Width(c) == IF c = EAcute THEN 2 ELSE 1

\* str::len: the length in bytes (every character one byte, and one more for
\* each two-byte character)
Utf8Len(s) == Len(s) + Cardinality({ i \in 1..Len(s) : Utf8Width(s[i]) = 2 })

\* estimate_tokens that rounds up
estimate_tokens_ceil(stats, final_output) == (Utf8Len(final_output) + 3) \div 4

\* RepoStats::estimate_tokens (and estimate_tokens of main.rs)
estimate_tokens(stats, final_output) == Utf8Len(final_output) \div 4

Repeat(c, n) == [i \in 1..n |-> c]

\* the texts estimate_tokens is called with: ASCII text of every length up to
\* the bound, with and without a non-ASCII character, and the text of
\* test_token_estimation
TokenTexts ==
    { Repeat("a", n) \o Repeat(EAcute, w) : n \in 0..MaxTextLen, w \in 0..1 }
    \cup { Repeat("a", 400) }

\* the add_file calls the model draws: (path, file_map, sym_count, line_count);
\* the first is the call of test_repostats_aggregation
AddFileArgs ==
    { << <<"s","r","c","/","m","a","i","n",".","r","s">>,
         <<"D","u","m","m","y"," ","c","o","n","t","e","n","t">>, 5, 100 >>,
      << <<"s","r","c","/","m","a","i","n",".","r","s">>,
         <<"\n","#","#"," ","b",".","m","d","\n">>, 12, 7 >>,
      << <<"b",".","m","d">>, <<"\n","#","#"," ","c","\n">>, 0, 100 >>,
      << <<"b",".","m","d">>, <<>>, 5, 0 >> }

StatsInit ==
    /\ oracle = "ok"
    /\ SpliceIdle /\ SymIdle /\ ImpIdle /\ ScanIdle
    /\ map_content = RepoStatsNew.map_content
    /\ table_rows = RepoStatsNew.table_rows
    /\ file_count = RepoStatsNew.file_count
    /\ calls = <<>>
    /\ est_text = <<>>
    /\ est = 0

AddFile ==
    /\ Len(calls) < MaxCalls
    /\ \E args \in AddFileArgs :
        LET stats == add_file([map_content |-> map_content, table_rows |-> table_rows,
                               file_count |-> file_count],
                              args[1], args[2], args[3], args[4])
        IN  /\ map_content' = stats.map_content
            /\ table_rows' = stats.table_rows
            /\ file_count' = stats.file_count
            /\ calls' = Append(calls, [path |-> args[1], file_map |-> args[2],
                                       sym_count |-> args[3],
                                       line_count |-> args[4]])
    /\ UNCHANGED <<est_text, est, oracle, spliceVars, symVars, impVars, scanVars>>

EstimateTokens ==
    /\ \E text \in TokenTexts :
        /\ est_text' = text
        /\ est' = estimate_tokens([map_content |-> map_content,
                                   table_rows |-> table_rows,
                                   file_count |-> file_count], text)
    /\ UNCHANGED <<map_content, table_rows, file_count, calls, oracle,
                   spliceVars, symVars, impVars, scanVars>>

StatsNext == AddFile \/ EstimateTokens

SpecStats == StatsInit /\ [][StatsNext]_vars

-----------------------------------------------------------------------------
(* main.rs: the scan loop *)

Languages == {"Rust", "Python", "Go", "Javascript", "Typescript", "Tsx", "Markdown"}

\* infer_language, on the path's extension (None when the path has none)
infer_language(extension) ==
    IF ~IsSome(extension) THEN None
    ELSE CASE extension.v = <<"r","s">> -> Some("Rust")
           [] extension.v = <<"p","y">> -> Some("Python")
           [] extension.v = <<"g","o">> -> Some("Go")
           [] extension.v \in { <<"j","s">>, <<"j","s","x">> } -> Some("Javascript")
           [] extension.v = <<"t","s">> -> Some("Typescript")
           [] extension.v = <<"t","s","x">> -> Some("Tsx")
           [] extension.v = <<"m","d">> -> Some("Markdown")
           [] OTHER -> None

\* lang_tag of process_file (main.rs)
LangTag(lang) ==
    CASE lang = "Rust" -> <<"r","u","s","t">>
      [] lang = "Python" -> <<"p","y","t","h","o","n">>
      [] lang = "Go" -> <<"g","o">>
      [] lang \in {"Javascript", "Typescript", "Tsx"} ->
            <<"t","y","p","e","s","c","r","i","p","t">>
      [] lang = "Markdown" -> <<"m","a","r","k","d","o","w","n">>

\* the header main starts table_rows with
TableHeader ==
    <<"|"," ","F","i","l","e"," ","|"," ","S","y","m","b","o","l","s"," ","|"," ",
      "L","i","n","e","s"," ","|","\n",
      "|"," ",":","-","-","-"," ","|"," ",":","-","-","-"," ","|"," ",
      ":","-","-","-"," ","|","\n">>

FnSymbol ==
    [name |-> <<"f">>, kind |-> function_item, parent |-> None,
     line |-> 1, end_line |-> 2]

\* one result of the walker.  kind: "file", "dir" or "error" (the walker's
\* Err).  For a file: whether read_to_string succeeds, what the oracle does
\* with its text, what the symbol query and the import query find in it,
\* and content.lines().count()
Entry(kind, path, extension, readable, parse, syms, imps, line_count) ==
    [kind |-> kind, path |-> path, extension |-> extension, readable |-> readable,
     parse |-> parse, symbols |-> syms, imports |-> imps, line_count |-> line_count]

ScanEntries ==
    { Entry("file", <<"a",".","r","s">>, Some(<<"r","s">>), TRUE, "ok",
            <<FnSymbol>>, <<>>, 3),
      Entry("file", <<"u",".","r","s">>, Some(<<"r","s">>), TRUE, "ok",
            <<>>, << <<"s","t","d",":",":","f","s">> >>, 1),
      Entry("file", <<"e",".","r","s">>, Some(<<"r","s">>), TRUE, "ok",
            <<>>, <<>>, 0),
      Entry("file", <<"m",".","r","s">>, Some(<<"r","s">>), TRUE, "ok",
            <<FnSymbol, FnSymbol>>, << <<"s","t","d",":",":","f","s">> >>, 12),
      Entry("file", <<"x",".","r","s">>, Some(<<"r","s">>), FALSE, "ok",
            <<>>, <<>>, 0),
      Entry("file", <<"d",".","j","p","g">>, Some(<<"j","p","g">>), TRUE, "ok",
            <<>>, <<>>, 1),
      Entry("file", <<"L">>, None, TRUE, "ok", <<FnSymbol>>, <<>>, 2),
      Entry("dir", <<"s","r","c">>, None, FALSE, "ok", <<>>, <<>>, 0),
      Entry("file", <<"c",".","j","s">>, Some(<<"j","s">>), TRUE, "bad_query",
            <<>>, <<>>, 1),
      Entry("file", <<"t",".","r","s">>, Some(<<"r","s">>), TRUE, "no_tree",
            <<>>, <<>>, 1),
      Entry("error", <<>>, None, FALSE, "ok", <<>>, <<>>, 0) }

\* args.language.or_else(|| infer_language(path))
TargetLang(entry) ==
    IF IsSome(language) THEN language ELSE infer_language(entry.extension)

\* what process_file(path, lang) does with an entry: Err (the read failed), a
\* panic (extract_symbols' expect), or Ok((output, symbols.len(), lines))
ProcessFile(entry, lang) ==
    IF ~entry.readable THEN [result |-> "Err"]
    ELSE IF entry.parse # "ok" THEN [result |-> "panic"]
    ELSE [result |-> "Ok",
          file_map |-> process_file(entry.path, LangTag(lang), entry.symbols),
          sym_count |-> Len(entry.symbols),
          line_count |-> entry.line_count]

ScanInit ==
    /\ oracle = "ok"
    /\ SpliceIdle /\ SymIdle /\ ImpIdle
    /\ language \in {None, Some("Rust")}
    /\ entries \in SeqsUpTo(ScanEntries, MaxEntries)
    /\ next_entry = 1
    /\ registered = <<>>
    /\ scan_pc = "scanning"
    /\ map_content = <<>>
    /\ file_count = 0
    /\ table_rows = TableHeader
    /\ calls = <<>>
    /\ est_text = <<>>
    /\ est = 0

\* one iteration of `for result in walker.build()`
ScanEntry ==
    /\ scan_pc = "scanning"
    /\ next_entry <= Len(entries)
    /\ LET entry == entries[next_entry]
           lang == TargetLang(entry)
           out == ProcessFile(entry, lang.v)
       IN  IF entry.kind = "error"
           THEN /\ scan_pc' = "failed"
                /\ UNCHANGED <<map_content, table_rows, file_count, registered>>
           ELSE IF entry.kind = "file" /\ IsSome(lang) /\ out.result = "panic"
           THEN /\ scan_pc' = "panicked"
                /\ UNCHANGED <<map_content, table_rows, file_count, registered>>
           ELSE IF entry.kind = "file" /\ IsSome(lang) /\ out.result = "Ok"
                   /\ out.file_map # <<>>
           THEN /\ map_content' = map_content \o out.file_map
                /\ table_rows' = table_rows
                      \o TableRow(entry.path, out.sym_count, out.line_count)
                /\ file_count' = file_count + 1
                /\ registered' = Append(registered, next_entry)
                /\ UNCHANGED scan_pc
           ELSE UNCHANGED <<map_content, table_rows, file_count, registered, scan_pc>>
    /\ next_entry' = next_entry + 1
    /\ UNCHANGED <<language, entries, calls, est_text, est, oracle,
                   spliceVars, symVars, impVars>>

\* final_output of main, for args.root = "." and the given args.summary
FinalOutput(summary) ==
    <<"#"," ","R","e","p","o","s","i","t","o","r","y"," ","M","a","p","\n",
      "*","*","R","o","o","t",":","*","*"," ", Backtick, ".", Backtick, "\n",
      "*","*","F","i","l","e","s"," ","P","r","o","c","e","s","s","e","d",":","*","*"," ">>
    \o ToDec(file_count) \o <<"\n","\n","-","-","-","\n">>
    \o (IF summary
        THEN <<"#","#"," ","S","u","m","m","a","r","y","\n">> \o table_rows
               \o <<"\n","-","-","-","\n">>
        ELSE <<"-","-","-","\n">>)
    \o map_content

\* the loop is over: the report is assembled and its size estimated (the
\* write of the report to the output is not modelled)
ScanFinish ==
    /\ scan_pc = "scanning"
    /\ next_entry > Len(entries)
    /\ scan_pc' = "done"
    /\ \E summary \in BOOLEAN :
        /\ est_text' = FinalOutput(summary)
        /\ est' = estimate_tokens([map_content |-> map_content,
                                   table_rows |-> table_rows,
                                   file_count |-> file_count], FinalOutput(summary))
    /\ UNCHANGED <<language, entries, next_entry, registered, map_content,
                   table_rows, file_count, calls, oracle,
                   spliceVars, symVars, impVars>>

ScanNext == ScanEntry \/ ScanFinish

Spec == ScanInit /\ [][ScanNext]_vars

-----------------------------------------------------------------------------
(* The splicer's properties *)

IsPrefix(p, s) == Len(p) <= Len(s) /\ SubSeq(s, 1, Len(p)) = p
IsSuffix(p, s) == Len(p) <= Len(s) /\ SubSeq(s, Len(s) - Len(p) + 1, Len(s)) = p

HasStart(doc) == Occurrences(doc, REPOMAP_START) # {}
HasEnd(doc) == Occurrences(doc, REPOMAP_END) # {}

\* both markers, the first start marker before the first end marker
HasValidPair(doc) ==
    /\ HasStart(doc) /\ HasEnd(doc)
    /\ SetMin(Occurrences(doc, REPOMAP_START)) < SetMin(Occurrences(doc, REPOMAP_END))

\* both markers, every end marker before the first start marker
EndPrecedesStart(doc) ==
    /\ HasStart(doc) /\ HasEnd(doc)
    /\ SetMax(Occurrences(doc, REPOMAP_END)) < SetMin(Occurrences(doc, REPOMAP_START))

\* the text strictly before the first start marker
BeforeStart(doc) == SubSeq(doc, 1, SetMin(Occurrences(doc, REPOMAP_START)))

\* the text strictly after the first end marker
AfterEnd(doc) ==
    SubSeq(doc, SetMin(Occurrences(doc, REPOMAP_END)) + Len(REPOMAP_END) + 1, Len(doc))

\* s without the whitespace at its end, stated without recursion
RightTrimmed(s) ==
    LET keep == { k \in 0..Len(s) :
                    /\ k = 0 \/ ~IsWhitespace(s[k])
                    /\ \A j \in (k + 1)..Len(s) : IsWhitespace(s[j]) }
    IN  SubSeq(s, 1, SetMax(keep))

\* what the append path yields: the block alone for a blank document, else the
\* right-trimmed document, a blank line, the block
Appended(doc, block) ==
    IF RightTrimmed(doc) = <<>> THEN block
    ELSE RightTrimmed(doc) \o <<"\n", "\n">> \o block

\* C1: splicing the same block a second time changes nothing:
\* splice(splice(doc, block), block) = splice(doc, block), for every document
\* (no markers, a valid pair, blank) and every block.  Stated for the blocks
\* that hold the marker pair, as wrap_for_claude_md makes them.
C1_SpliceIdempotent ==
    (runs >= 2 /\ new_repomap = prev_repomap /\ HasValidPair(new_repomap)) =>
        existing_content = prev_content

\* C2 as stated: for a document with a valid marker pair, the text before the
\* start marker and the text after the end marker are byte-identical in the
\* document and in the result.
C2_PreservedByteIdentical ==
    (runs >= 1 /\ HasValidPair(prev_content) /\ HasValidPair(existing_content)) =>
        /\ BeforeStart(existing_content) = BeforeStart(prev_content)
        /\ AfterEnd(existing_content) = AfterEnd(prev_content)

\* C2 amended: for a document with a valid marker pair, the result is the text
\* before the start marker without its trailing whitespace, then the new
\* block, then the text after the end marker, byte for byte.
C2_PreservedAroundBlock ==
    (runs >= 1 /\ HasValidPair(prev_content)) =>
        /\ IsPrefix(RightTrimmed(BeforeStart(prev_content)) \o new_repomap,
                    existing_content)
        /\ IsSuffix(new_repomap \o AfterEnd(prev_content), existing_content)
        /\ Len(existing_content) =
              Len(RightTrimmed(BeforeStart(prev_content))) + Len(new_repomap)
                + Len(AfterEnd(prev_content))

\* a splice into a document with a valid pair, whitespace before the start
\* marker and text after the end marker
C2_Witness ==
    /\ runs >= 1 /\ HasValidPair(prev_content)
    /\ RightTrimmed(BeforeStart(prev_content)) # BeforeStart(prev_content)
    /\ RightTrimmed(BeforeStart(prev_content)) # <<>>
    /\ AfterEnd(prev_content) # <<>>
    /\ HasValidPair(new_repomap)

\* C7: a document that lacks a marker, or whose end marker precedes its start
\* marker, is spliced by the append path.
C7_InvalidPairAppends ==
    (runs >= 1 /\ (~HasStart(prev_content) \/ ~HasEnd(prev_content)
                    \/ EndPrecedesStart(prev_content))) =>
        existing_content = Appended(prev_content, new_repomap)

\* the document holds neither marker
MarkerFree(doc) == ~HasStart(doc) /\ ~HasEnd(doc)

\* every splice so far started from a document without markers and used a
\* block of wrap_for_claude_md
OnlyWrappedSpliced ==
    /\ runs >= 1
    /\ MarkerFree(orig_content)
    /\ \A i \in 1..Len(spliced) : spliced[i] \in WrappedBlocks

\* exactly one start marker and exactly one end marker, the start first
OneMarkerPair(doc) ==
    /\ Cardinality(Occurrences(doc, REPOMAP_START)) = 1
    /\ Cardinality(Occurrences(doc, REPOMAP_END)) = 1
    /\ SetMin(Occurrences(doc, REPOMAP_START)) < SetMin(Occurrences(doc, REPOMAP_END))

\* C13: starting from a document without markers, after any number (>= 1) of
\* splices, each of a block of wrap_for_claude_md made from content without
\* markers, the document holds exactly one start marker and exactly one end
\* marker, the start before the end, and the text outside the marker pair is
\* the same after every splice from the second one on.
C13_OnePairNoDrift ==
    OnlyWrappedSpliced =>
        /\ OneMarkerPair(existing_content)
        /\ runs >= 3 =>
              /\ BeforeStart(existing_content) = BeforeStart(prev_content)
              /\ AfterEnd(existing_content) = AfterEnd(prev_content)

-----------------------------------------------------------------------------
(* The normalizer's properties *)

\* C3: whatever the order of the matches, a line never ends up with both a
\* parentless Symbol and a parent-bearing Symbol: of a parentless and a
\* parent-bearing match on one line only the parent-bearing one is returned.
C3_DedupAnyOrder ==
    sym_pc = "returned" =>
        \A i, j \in 1..Len(symbols) :
            symbols[i].line = symbols[j].line =>
                (IsSome(symbols[i].parent) <=> IsSome(symbols[j].parent))

\* C10: every Symbol has line >= 1 and end_line >= line, its size is computed
\* without underflow, is end_line - line + 1 >= 1, and that number is what the
\* rendered line shows.
C10_SpanAndSize ==
    \A i \in 1..Len(symbols) :
        LET sym == symbols[i] IN
        /\ sym.line >= 1
        /\ sym.end_line >= sym.line
        /\ IsSome(SymbolSize(sym))
        /\ SymbolSize(sym).v = sym.end_line - sym.line + 1
        /\ SymbolSize(sym).v >= 1
        /\ IsSuffix(<<"|", " ", "(">> \o ToDec(sym.end_line - sym.line + 1)
                      \o <<" ","l","i","n","e","s",")","\n">>,
                    SymbolLine(sym, sym.kind))
        /\ IsSuffix(<<"|", " ", "(">> \o ToDec(sym.end_line - sym.line + 1)
                      \o <<" ","l","i","n","e","s",")","\n">>,
                    SymbolLine(sym, CleanKind(sym.kind)))

\* extract_symbols has returned a one-line Symbol and a Symbol of several lines
C10_Witness ==
    /\ sym_pc = "returned"
    /\ \E i \in 1..Len(symbols) : symbols[i].end_line = symbols[i].line
    /\ \E i \in 1..Len(symbols) : symbols[i].end_line > symbols[i].line

\* the matches the while loop has taken
MatchesRead == 1..(next_match - 1)

\* the number of '#' characters text begins with
LeadingHashes(text) ==
    SetMin({ k \in 0..Len(text) : k = Len(text) \/ text[k + 1] # "#" })

\* s without the whitespace at its start, stated without recursion
LeftTrimmed(s) ==
    LET drop == { k \in 0..Len(s) :
                    /\ k = Len(s) \/ ~IsWhitespace(s[k + 1])
                    /\ \A j \in 1..k : IsWhitespace(s[j]) }
    IN  SubSeq(s, SetMin(drop) + 1, Len(s))

\* the heading text without the leading markers and the whitespace around it
HeadingText(text) ==
    LeftTrimmed(RightTrimmed(SubSeq(text, LeadingHashes(text) + 1, Len(text))))

\* the positions of the item captures of m that are headings with L >= 1
HeadingItems(m) ==
    { c \in 1..Len(m) :
        /\ m[c].capture_name = "item" /\ m[c].kind = atx_heading
        /\ IsSome(m[c].text) /\ LeadingHashes(m[c].text.v) >= 1 }

IsHeadingMatch(m) == HeadingItems(m) # {}

\* the item capture of a heading match
HeadingItem(m) == m[SetMax(HeadingItems(m))]

\* the positions of the name captures of m that come after position c
NamesAfter(m, c) ==
    { d \in (c + 1)..Len(m) : m[d].capture_name = "name" /\ IsSome(m[d].text) }

\* the name a heading match ends up with: the heading text, unless a name
\* capture follows the item capture
RenamedHeadingText(m) ==
    LET c == SetMax(HeadingItems(m))
    IN  IF NamesAfter(m, c) = {} THEN HeadingText(m[c].text.v)
        ELSE LeftTrimmed(RightTrimmed(m[SetMax(NamesAfter(m, c))].text.v))

\* some Symbol on the line of the heading match m has kind "h" + L and the
\* name given
HeadingSymbol(m, name) ==
    \E k \in 1..Len(symbols) :
        /\ symbols[k].line = HeadingItem(m).start_row + 1
        /\ symbols[k].kind = <<"h">> \o ToDec(LeadingHashes(HeadingItem(m).text.v))
        /\ symbols[k].name = name

\* the heading levels a display is stated for
HeadingLevels == 1..9

\* the display name the claim gives a Symbol
ClaimedDisplay(sym) ==
    IF IsSome(sym.parent) THEN sym.parent.v \o <<" ", ">", " ">> \o sym.name
    ELSE IF \E n \in HeadingLevels : sym.kind = <<"h">> \o ToDec(n)
         THEN LET level == CHOOSE n \in HeadingLevels : sym.kind = <<"h">> \o ToDec(n)
              IN  [i \in 1..(2 * (level - 1)) |-> " "] \o sym.name
         ELSE sym.name

\* the text of the third column of a rendered line whose second column is kind
DisplayColumn(line, sym, kind) ==
    LET first == 1 + Len(PadRight(ToDec(sym.line), 3)) + 3 + Len(PadRight(kind, 10)) + 3
    IN  SubSeq(line, first + 1, Len(line) - Len(<<" ", "|", " ", "(">> \o SizeText(sym)
                                                  \o <<" ","l","i","n","e","s",")","\n">>))

\* every Symbol returned so far is displayed as the claim says, in the render
\* of formatter.rs and in the render of main.rs
DisplayedAsClaimed ==
    \A k \in 1..Len(symbols) :
        LET sym == symbols[k] IN
        /\ DisplayName(sym) = ClaimedDisplay(sym)
        /\ DisplayColumn(SymbolLine(sym, sym.kind), sym, sym.kind)
              = PadRight(ClaimedDisplay(sym), 30)
        /\ DisplayColumn(SymbolLine(sym, CleanKind(sym.kind)), sym, CleanKind(sym.kind))
              = PadRight(ClaimedDisplay(sym), 30)

\* C11 as stated: a heading match with L >= 1 leading '#' yields a Symbol of
\* kind "h" + L whose name is the heading text without the markers and the
\* surrounding whitespace, whatever name capture the match holds; a Symbol
\* with a parent is displayed as "<parent> > <name>", a parentless Symbol of
\* kind h<digits> as its name after 2 * (level - 1) spaces, any other Symbol
\* as its name.  A Symbol's name is never empty, so the statement is about
\* the headings that have a text.
C11_HeadingOverridesAnyName ==
    /\ \A i \in MatchesRead :
          (/\ IsHeadingMatch(matches[i])
           /\ HeadingText(HeadingItem(matches[i]).text.v) # <<>>) =>
              HeadingSymbol(matches[i], HeadingText(HeadingItem(matches[i]).text.v))
    /\ DisplayedAsClaimed

\* C11 amended: the item capture of a heading with L >= 1 leading '#' sets
\* the kind to "h" + L and the name to the heading text without the markers
\* and the surrounding whitespace, overriding the name captures read before it;
\* a name capture read after it replaces that name with its trimmed text; the
\* match yields a Symbol with that kind and name exactly when the name it ends
\* up with is not empty.  The display is as stated.
C11_HeadingOverridesEarlierName ==
    /\ \A i \in MatchesRead :
          IsHeadingMatch(matches[i]) =>
              (RenamedHeadingText(matches[i]) # <<>> =>
                  HeadingSymbol(matches[i], RenamedHeadingText(matches[i])))
    /\ (\A i \in MatchesRead : \A c \in 1..Len(matches[i]) :
            matches[i][c].capture_name # "parent" /\ matches[i][c].kind # function_item)
          => Len(symbols) =
                Cardinality({ i \in MatchesRead :
                                /\ IsHeadingMatch(matches[i])
                                /\ RenamedHeadingText(matches[i]) # <<>> })
    /\ \A k \in 1..Len(symbols) : symbols[k].name # <<>>
    /\ DisplayedAsClaimed

\* extract_symbols has returned the Symbol of a heading whose match holds a
\* name capture before the item capture, under the heading's own text, and a
\* Symbol of a heading of level 2 or more
C11_Witness ==
    /\ sym_pc = "returned"
    /\ \E i \in MatchesRead :
          /\ IsHeadingMatch(matches[i])
          /\ \E c \in 1..Len(matches[i]) :
                /\ c < SetMax(HeadingItems(matches[i]))
                /\ matches[i][c].capture_name = "name" /\ IsSome(matches[i][c].text)
                /\ LeftTrimmed(RightTrimmed(matches[i][c].text.v))
                      # HeadingText(HeadingItem(matches[i]).text.v)
          /\ HeadingSymbol(matches[i], HeadingText(HeadingItem(matches[i]).text.v))
    /\ \E k \in 1..Len(symbols) :
          /\ ~IsSome(symbols[k].parent)
          /\ \E n \in 2..9 : symbols[k].kind = <<"h">> \o ToDec(n)

-----------------------------------------------------------------------------
(* The import normalizer's properties *)

\* the cleaned values of the import captures read so far, empty ones dropped
CleanedSoFar ==
    LET read == SubSeq(captures, 1, next_capture - 1)
    IN  SelectSeq([i \in 1..Len(read) |->
                     IF read[i].capture_name = "import" /\ IsSome(read[i].text)
                     THEN CleanImport(read[i].text.v) ELSE <<>>],
                  LAMBDA t : t # <<>>)

FirstIndex(seq, x) == SetMin({ i \in 1..Len(seq) : seq[i] = x })

\* C5: the import list holds each distinct non-empty cleaned value exactly
\* once, and the values stand in the order of their first occurrences.
C5_ImportDedup ==
    LET cl == CleanedSoFar IN
    /\ \A i, j \in 1..Len(imports) : imports[i] = imports[j] => i = j
    /\ { imports[i] : i \in 1..Len(imports) } = { cl[i] : i \in 1..Len(cl) }
    /\ \A i, j \in 1..Len(imports) :
          i < j => FirstIndex(cl, imports[i]) < FirstIndex(cl, imports[j])

\* extract_imports has returned after a cleaned value came twice, with another
\* value between its two occurrences
C5_Witness ==
    /\ imp_pc = "returned"
    /\ Len(imports) >= 2
    /\ \E i, j, k \in 1..Len(CleanedSoFar) :
          /\ i < j /\ j < k
          /\ CleanedSoFar[i] = CleanedSoFar[k]
          /\ CleanedSoFar[i] # CleanedSoFar[j]

\* the import captures read so far that have a text
ImportsRead ==
    { i \in 1..(next_capture - 1) :
        captures[i].capture_name = "import" /\ IsSome(captures[i].text) }

IsQuote(c) == c \in {"\"", "'"}

\* t is enclosed in a pair of double or of single quotes
Enclosed(t) == Len(t) >= 2 /\ IsQuote(t[1]) /\ t[Len(t)] = t[1]

\* text without the whitespace around it and without one layer of enclosing
\* quotes
OneLayerStripped(text) ==
    LET t == LeftTrimmed(RightTrimmed(text))
    IN  IF Enclosed(t) THEN SubSeq(t, 2, Len(t) - 1) ELSE t

\* C12: the cleaned value of a raw import capture text is the trimmed text
\* with exactly one layer of enclosing double or single quotes removed when
\* present; a text that is not enclosed in quotes is changed by the trim only,
\* and inner or further quotes are kept.  The import list holds the cleaned
\* values that are not empty.
C12_OneQuoteLayer ==
    /\ \A i \in ImportsRead :
          OneLayerStripped(captures[i].text.v) # <<>> =>
              Contains(imports, OneLayerStripped(captures[i].text.v))
    /\ \A k \in 1..Len(imports) :
          \E i \in ImportsRead : imports[k] = OneLayerStripped(captures[i].text.v)

-----------------------------------------------------------------------------
(* The aggregate's properties *)

\* the rows of a table_rows buffer: its text cut after every line feed
RowCount(rows) == Cardinality({ i \in 1..Len(rows) : rows[i] = "\n" })

\* C4: after add_file calls f1..fn on a fresh RepoStats, map_content is the
\* fragments joined in call order, table_rows is the n rows
\* "| `path` | symbols | lines |" in call order, and file_count is n.
C4_AggregatorOrder ==
    /\ map_content = Concat([i \in 1..Len(calls) |-> calls[i].file_map])
    /\ table_rows =
         Concat([i \in 1..Len(calls) |->
                   <<"|", " ", Backtick>> \o calls[i].path \o <<Backtick, " ", "|", " ">>
                   \o ToDec(calls[i].sym_count) \o <<" ", "|", " ">>
                   \o ToDec(calls[i].line_count) \o <<" ", "|", "\n">>])
    /\ RowCount(table_rows) = Len(calls)
    /\ file_count = Len(calls)

\* three add_file calls with three different fragments have been made
C4_Witness ==
    /\ Len(calls) = 3
    /\ calls[1].file_map # calls[2].file_map
    /\ calls[2].file_map # calls[3].file_map
    /\ calls[1].file_map # calls[3].file_map
    /\ \A i \in 1..3 : calls[i].file_map # <<>>

\* C6: estimate_tokens(s) is floor(length(s) / 4), the length taken in bytes
\* as str::len does, whatever the aggregate holds.
C6_TokenEstimate ==
    /\ 4 * est <= Utf8Len(est_text)
    /\ Utf8Len(est_text) < 4 * est + 4
    /\ (Len(est_text) = 400 /\ Utf8Len(est_text) = 400) => est = 100

\* estimate_tokens was called on a non-empty aggregate with a text whose
\* length is no multiple of four
C6_Witness ==
    /\ Len(calls) >= 1
    /\ Utf8Len(est_text) % 4 = 3
    /\ est >= 1

-----------------------------------------------------------------------------
(* The scan's properties *)

\* the entries the loop has taken
Scanned == 1..(next_entry - 1)

\* a file whose language is known, whose text was read and which the oracle
\* fails on
ParseFails(entry) ==
    /\ entry.kind = "file" /\ IsSome(TargetLang(entry))
    /\ entry.readable /\ entry.parse # "ok"

\* C8: a file the parser or the query compiler fails on is skipped (no
\* fragment, no row, no count) and the scan goes on to the remaining files: it
\* never aborts on such a file.
C8_ParseFailureSkipped ==
    \A i \in Scanned :
        ParseFails(entries[i]) =>
            /\ scan_pc \in {"scanning", "done"}
            /\ ~Contains(registered, i)

\* C9: a file is registered exactly when it was rendered to a non-empty
\* fragment; the counter is the number of such files; and the fragment of a
\* rendered file is empty exactly when it has no symbols and no imports.
C9_OnlyNonEmptyRegistered ==
    /\ file_count = Len(registered)
    /\ RowCount(table_rows) = RowCount(TableHeader) + Len(registered)
    /\ \A i \in Scanned :
        LET entry == entries[i]
            lang == TargetLang(entry)
            rendered == /\ entry.kind = "file" /\ IsSome(lang)
                        /\ entry.readable /\ entry.parse = "ok"
        IN  /\ Contains(registered, i) =>
                rendered /\ process_file(entry.path, LangTag(lang.v), entry.symbols) # <<>>
            /\ rendered =>
                /\ Contains(registered, i) <=>
                      process_file(entry.path, LangTag(lang.v), entry.symbols) # <<>>
                /\ process_file(entry.path, LangTag(lang.v), entry.symbols) = <<>> <=>
                      (entry.symbols = <<>> /\ entry.imports = <<>>)

====
